---- MODULE Spec2Model ----
(***************************************************************************)
(* One-way periodic mirroring of a source directory tree into a replica    *)
(* directory tree (synchronization.py).                                    *)
(*                                                                         *)
(* A tree is a function from relative paths (sequences of names) to nodes. *)
(* The two roots are directories that exist; every path is relative to its *)
(* root, and the same relative path is used on both sides, as the code     *)
(* joins the same item name onto src_path and rep_path.                    *)
(*                                                                         *)
(* One action is one entry of a directory listing processed by the loops   *)
(* of src_to_rep and rep_to_src; the order of a listing is not fixed, so   *)
(* any entry still to do may be taken next.  An uncaught exception ends    *)
(* the process (pc = "crashed"): nothing in the file catches one.          *)
(***************************************************************************)
EXTENDS Integers, Sequences, FiniteSets, TLC

VARIABLES
    src,        \* the source tree
    rep,        \* the replica tree
    logfile,    \* the lines appended to the log file, oldest first
    pc,         \* where the process is
    stack,      \* the active calls of src_to_rep: [dir, todo], innermost last
    todo2,      \* the entries of rep_lst that rep_to_src has not visited yet
    pending,    \* the rep_file that synchronize_file removed and has yet to re-create
    runs,       \* the number of synchronize calls started by the loop
    rep0,       \* history: the replica tree when the current call started
    logStart,   \* history: the length of the log when the current call started
    cd,         \* the outcome of the last direct call of same_files
    env         \* history: what the environment did to the process and the source

vars == <<src, rep, logfile, pc, stack, todo2, pending, runs, rep0, logStart, cd, env>>

----------------------------------------------------------------------------
(* Bounds *)

MaxRuns == 2    \* iterations of the periodic loop that are explored
MaxLen  == 2    \* longest file content given to the change detector alone
MaxByte == 3    \* number of byte values given to the change detector alone
MaxChanges == 2 \* changes another process makes to the source tree

Names == {"a", "b"}

\* The paths an initial tree may use: two entries under the root, one of
\* which may be a directory with one entry of its own.
InitPaths == {<<"a">>, <<"b">>, <<"a", "a">>}

\* copy2 onto a directory writes inside it, one level below the entry.
Universe == InitPaths \cup {p \o <<p[Len(p)]>> : p \in InitPaths}

\* Contents of the files of the trees: empty, two of equal size, and one
\* that extends another.
FileContents == {<< >>, <<1>>, <<2>>, <<1, 1>>}

\* st_size of a directory depends on the file system; it may or may not
\* coincide with the size of the file it is compared with.
DirSizes == {1, 2, 4096}

Bytes == 0 .. (MaxByte - 1)

RECURSIVE SeqsUpTo(_)
SeqsUpTo(n) ==
    IF n = 0 THEN {<< >>}
    ELSE LET shorter == SeqsUpTo(n - 1)
         IN  shorter \cup {Append(s, b) : s \in {t \in shorter : Len(t) = n - 1}, b \in Bytes}

CDContents == SeqsUpTo(MaxLen)

----------------------------------------------------------------------------
(* The file system *)

NoEntry == [kind |-> "none", data |-> << >>]
DirNode == [kind |-> "dir", data |-> << >>]
FileNode(c) == [kind |-> "file", data |-> c]

Root == << >>
Front(s) == SubSeq(s, 1, Len(s) - 1)
Parent(p) == Front(p)
basename(p) == p[Len(p)]
join(p, name) == Append(p, name)
IsPrefix(p, q) == Len(p) <= Len(q) /\ SubSeq(q, 1, Len(p)) = p

Kind(tree, p) ==
    IF p = Root THEN "dir"
    ELSE IF p \in DOMAIN tree THEN tree[p].kind
    ELSE "none"

\* An entry exists only inside a directory.
WellFormed(tree) ==
    \A p \in DOMAIN tree : tree[p].kind # "none" => Kind(tree, Parent(p)) = "dir"

EmptyTree == [p \in Universe |-> NoEntry]

InitNodes == {NoEntry, DirNode} \cup {FileNode(c) : c \in FileContents}

InitTrees ==
    {[p \in Universe |-> IF p \in InitPaths THEN f[p] ELSE NoEntry] :
        f \in {g \in [InitPaths -> InitNodes] : WellFormed(g)}}

exists(tree, p) == Kind(tree, p) # "none"
isfile(tree, p) == Kind(tree, p) = "file"
isdir(tree, p) == Kind(tree, p) = "dir"

getsize(tree, p, ds) == IF isfile(tree, p) THEN Len(tree[p].data) ELSE ds

get_dir_content(tree, path) ==
    {n \in Names : join(path, n) \in DOMAIN tree /\ exists(tree, join(path, n))}

remove(tree, p) == [tree EXCEPT ![p] = NoEntry]

rmtree(tree, p) == [q \in DOMAIN tree |-> IF IsPrefix(p, q) THEN NoEntry ELSE tree[q]]

makedirs(tree, p) == [tree EXCEPT ![p] = DirNode]

write(tree, p, c) == [tree EXCEPT ![p] = FileNode(c)]

\* shutil.copy2(src_file, dst): a dst that is a directory receives the file
\* under the source's base name; opening a directory for writing fails.
copy2(tree, data, dst, name) ==
    LET target == IF isdir(tree, dst) THEN join(dst, name) ELSE dst
    IN  IF isdir(tree, target) \/ ~isdir(tree, Parent(target))
        THEN [err |-> TRUE, tree |-> tree]
        ELSE [err |-> FALSE, tree |-> write(tree, target, data)]

----------------------------------------------------------------------------
(* Change detector *)

HexDigits(b) == <<b \div 16, b % 16>>

RECURSIVE hexdigest(_)
\* The digest as a string of hexadecimal digits, a function of the length
\* and of every byte of the content.
hexdigest(s) ==
    IF s = << >> THEN <<0>>
    ELSE LET h == hexdigest(Front(s))
         IN  <<(h[1] + 1) % 16>> \o SubSeq(h, 2, Len(h)) \o HexDigits(s[Len(s)])

\* Mutant: the digest of the first byte only, f.read(1).
calculate_hash_first_byte(tree, p) ==
    hexdigest(IF tree[p].data = << >> THEN << >> ELSE <<tree[p].data[1]>>)

calculate_hash(tree, p) == hexdigest(tree[p].data)

\* Mutant: equal sizes taken for equal files, no digest compared.
same_files_size_only(sp, rp, ds) ==
    [result |-> getsize(src, sp, ds) = getsize(rep, rp, ds),
     err |-> FALSE, opened |-> << >>]

\* Mutant: the comparison inverted, equal files reported as different.
same_files_never_equal(sp, rp, ds) ==
    [result |-> FALSE, err |-> ~isfile(src, sp) \/ ~isfile(rep, rp), opened |-> << >>]

\* Mutant: both digests computed before the sizes are compared.
same_files_hash_first(sp, rp, ds) ==
    IF ~isfile(src, sp)
    THEN [result |-> FALSE, err |-> TRUE, opened |-> << >>]
    ELSE IF ~isfile(rep, rp)
    THEN [result |-> FALSE, err |-> TRUE, opened |-> <<"src">>]
    ELSE [result |-> /\ calculate_hash(src, sp) = calculate_hash(rep, rp)
                     /\ getsize(src, sp, ds) = getsize(rep, rp, ds),
          err |-> FALSE, opened |-> <<"src", "rep">>]

\* same_files(src_path, rep_path): the result, whether it raised, and the
\* files it opened, in order.
same_files(sp, rp, ds) ==
    IF getsize(src, sp, ds) # getsize(rep, rp, ds)
    THEN [result |-> FALSE, err |-> FALSE, opened |-> << >>]
    ELSE IF ~isfile(src, sp)
    THEN [result |-> FALSE, err |-> TRUE, opened |-> << >>]
    ELSE IF ~isfile(rep, rp)
    THEN [result |-> FALSE, err |-> TRUE, opened |-> <<"src">>]
    ELSE [result |-> calculate_hash(src, sp) = calculate_hash(rep, rp),
          err |-> FALSE, opened |-> <<"src", "rep">>]

NoCall == [called |-> FALSE, result |-> FALSE, err |-> FALSE, opened |-> << >>]

----------------------------------------------------------------------------
(* Tree synchronizer *)

log(action, file_path) == <<[action |-> action, path |-> file_path]>>

Failed == [status |-> "error", rep |-> rep, ev |-> << >>]
Done(tree, ev) == [status |-> "ok", rep |-> tree, ev |-> ev]

\* Mutant: a replica entry that exists is taken to be the empty file already.
synchronize_file_empty_keep(p) ==
    IF exists(rep, p) THEN Done(rep, << >>)
    ELSE IF isdir(rep, Parent(p))
         THEN Done(write(rep, p, << >>), log("Created empty file", p))
         ELSE Failed

\* The empty-file branch of synchronize_file, up to its return or up to the
\* removal of rep_file (status "removed"; the creation is the next step).
synchronize_file_empty(p) ==
    IF exists(rep, p)
    THEN IF isdir(rep, p) THEN Failed
         ELSE [status |-> "removed", rep |-> remove(rep, p), ev |-> << >>]
    ELSE IF isdir(rep, Parent(p))
         THEN Done(write(rep, p, << >>), log("Created empty file", p))
         ELSE Failed

\* The copy-or-update branch of synchronize_file.
synchronize_file_copy(p, ds) ==
    IF ~exists(rep, p)
    THEN LET c == copy2(rep, src[p].data, p, basename(p))
         IN  IF c.err THEN Failed ELSE Done(c.tree, log("Created", p))
    ELSE LET same == same_files(p, p, ds)
         IN  IF same.err THEN Failed
             ELSE IF ~same.result
             THEN LET c == copy2(rep, src[p].data, p, basename(p))
                  IN  IF c.err THEN Failed ELSE Done(c.tree, log("Updated", p))
             ELSE Done(rep, << >>)

synchronize_file(p, ds) ==
    IF getsize(src, p, ds) = 0
    THEN synchronize_file_empty(p)
    ELSE synchronize_file_copy(p, ds)

\* synchronize_file from open(rep_file, 'w') on, after the removal.
synchronize_file_create(p) ==
    Done(write(rep, p, << >>), log("Created empty file", p))

\* synchronize_dir up to its call of src_to_rep.
synchronize_dir(p) ==
    IF ~exists(rep, p)
    THEN IF isdir(rep, Parent(p))
         THEN Done(makedirs(rep, p), log("Created directory", p))
         ELSE Failed
    ELSE Done(rep, << >>)

\* Mutant: the body of the loop without the test of the source path.
rep_to_src_item_always(item) ==
    LET p == join(Root, item)
    IN  IF isfile(rep, p) THEN Done(remove(rep, p), log("Deleted", p))
        ELSE IF isdir(rep, p) THEN Done(rmtree(rep, p), log("Deleted", p))
        ELSE Done(rep, << >>)

\* The body of the loop of rep_to_src for one item of rep_lst.
rep_to_src_item(item) ==
    LET p == join(Root, item)
    IN  IF ~exists(src, p)
        THEN IF isfile(rep, p) THEN Done(remove(rep, p), log("Deleted", p))
             ELSE IF isdir(rep, p) THEN Done(rmtree(rep, p), log("Deleted", p))
             ELSE Done(rep, << >>)
        ELSE Done(rep, << >>)

Frame(dir) == [dir |-> dir, todo |-> get_dir_content(src, dir)]

Top == stack[Len(stack)]

Without(item) == [stack EXCEPT ![Len(stack)].todo = @ \ {item}]

RECURSIVE Unwind(_)
\* The loops whose listing is exhausted return.
Unwind(st) ==
    IF st = << >> THEN st
    ELSE IF st[Len(st)].todo = {} THEN Unwind(Front(st))
    ELSE st

\* Control after an entry of pass 1: the next entry, or, when the outermost
\* src_to_rep has returned, rep_to_src with its listing of the replica root.
Continue(st, newRep) ==
    LET u == Unwind(st)
        lst == get_dir_content(newRep, Root)
    IN  IF u # << >>
        THEN /\ pc' = "pass1"
             /\ stack' = u
             /\ todo2' = {}
        ELSE /\ pc' = IF lst = {} THEN "idle" ELSE "pass2"
             /\ stack' = << >>
             /\ todo2' = lst

\* The history at the start of a call: whether the pass before it was stopped
\* short, how often the source has been changed by another process so far,
\* and that it has not been changed during this call yet.
NoEnv == [stopped |-> FALSE, changes |-> 0, dirty |-> FALSE]
NextCall(afterStop) == [stopped |-> afterStop, changes |-> env.changes, dirty |-> FALSE]

\* Mutant: the exception is swallowed and synchronize returns to the loop.
Crash_swallowed ==
    /\ pc' = "idle"
    /\ stack' = << >>
    /\ UNCHANGED <<rep, logfile, todo2, pending>>

\* An exception raised by a file system call propagates out of synchronize
\* and of the loop of __main__.
Crash ==
    /\ pc' = "crashed"
    /\ UNCHANGED <<rep, logfile, stack, todo2, pending>>

\* Mutant: synchronize calls rep_to_src first and src_to_rep not at all.
synchronize_pass2_first ==
    /\ pc = "idle"
    /\ runs < MaxRuns
    /\ runs' = runs + 1
    /\ rep0' = rep
    /\ logStart' = Len(logfile)
    /\ Continue(<< >>, rep)
    /\ env' = NextCall(FALSE)
    /\ UNCHANGED <<src, rep, logfile, pending, cd>>

\* The loop of __main__ calls synchronize, which calls src_to_rep on the roots.
synchronize ==
    /\ pc = "idle"
    /\ runs < MaxRuns
    /\ runs' = runs + 1
    /\ rep0' = rep
    /\ logStart' = Len(logfile)
    /\ Continue(<<Frame(Root)>>, rep)
    /\ env' = NextCall(FALSE)
    /\ UNCHANGED <<src, rep, logfile, pending, cd>>

\* Mutant: the arguments of copy2 swapped in the update branch.
src_to_rep_file_swapped(item) ==
    /\ pc = "pass1"
    /\ item \in Top.todo
    /\ isfile(src, join(Top.dir, item))
    /\ LET p == join(Top.dir, item)
       IN  src' = IF isfile(rep, p) THEN write(src, p, rep[p].data) ELSE src
    /\ Continue(Without(item), rep)
    /\ UNCHANGED <<rep, logfile, pending, runs, rep0, logStart, cd, env>>

src_to_rep_file(item) ==
    /\ pc = "pass1"
    /\ item \in Top.todo
    /\ isfile(src, join(Top.dir, item))
    /\ \E ds \in DirSizes :
        LET p == join(Top.dir, item)
            r == synchronize_file(p, ds)
        IN  CASE r.status = "error" -> Crash
              [] r.status = "removed" ->
                    /\ rep' = r.rep
                    /\ pending' = p
                    /\ pc' = "pass1_create"
                    /\ stack' = Without(item)
                    /\ UNCHANGED <<logfile, todo2>>
              [] r.status = "ok" ->
                    /\ rep' = r.rep
                    /\ logfile' = logfile \o r.ev
                    /\ Continue(Without(item), r.rep)
                    /\ UNCHANGED pending
    /\ UNCHANGED <<src, runs, rep0, logStart, cd, env>>

src_to_rep_create ==
    /\ pc = "pass1_create"
    /\ LET r == synchronize_file_create(pending)
       IN  /\ rep' = r.rep
           /\ logfile' = logfile \o r.ev
           /\ Continue(stack, r.rep)
    /\ pending' = << >>
    /\ UNCHANGED <<src, runs, rep0, logStart, cd, env>>

src_to_rep_dir(item) ==
    /\ pc = "pass1"
    /\ item \in Top.todo
    /\ isdir(src, join(Top.dir, item))
    /\ LET p == join(Top.dir, item)
           r == synchronize_dir(p)
       IN  IF r.status = "error" THEN Crash
           ELSE /\ rep' = r.rep
                /\ logfile' = logfile \o r.ev
                /\ Continue(Append(Without(item), Frame(p)), r.rep)
                /\ UNCHANGED pending
    /\ UNCHANGED <<src, runs, rep0, logStart, cd, env>>

rep_to_src(item) ==
    /\ pc = "pass2"
    /\ item \in todo2
    /\ LET r == rep_to_src_item(item)
       IN  /\ rep' = r.rep
           /\ logfile' = logfile \o r.ev
    /\ todo2' = todo2 \ {item}
    /\ pc' = IF todo2 \ {item} = {} THEN "idle" ELSE "pass2"
    /\ UNCHANGED <<src, stack, pending, runs, rep0, logStart, cd, env>>

Init ==
    /\ src \in InitTrees
    /\ rep \in InitTrees
    /\ logfile = << >>
    /\ pc = "idle"
    /\ stack = << >>
    /\ todo2 = {}
    /\ pending = << >>
    /\ runs = 0
    /\ rep0 = rep
    /\ logStart = 0
    /\ cd = NoCall
    /\ env = NoEnv

Next ==
    \/ synchronize
    \/ \E item \in Names : src_to_rep_file(item)
    \/ src_to_rep_create
    \/ \E item \in Names : src_to_rep_dir(item)
    \/ \E item \in Names : rep_to_src(item)

Spec == Init /\ [][Next]_vars

----------------------------------------------------------------------------
(* The process stopped from outside in the middle of a pass, and started again. *)

\* The process is terminated between two steps of a pass; what it held in
\* memory is gone, the replica and the log stay as they are.
terminate ==
    /\ pc \in {"pass1", "pass1_create", "pass2"}
    /\ pc' = "stopped"
    /\ stack' = << >>
    /\ todo2' = {}
    /\ pending' = << >>
    /\ UNCHANGED <<src, rep, logfile, runs, rep0, logStart, cd, env>>

\* The program is started again after it was terminated or after an
\* exception ended it: its first synchronize call starts from the roots.
restart ==
    /\ pc \in {"stopped", "crashed"}
    /\ runs < MaxRuns
    /\ runs' = runs + 1
    /\ rep0' = rep
    /\ logStart' = Len(logfile)
    /\ Continue(<<Frame(Root)>>, rep)
    /\ env' = NextCall(TRUE)
    /\ UNCHANGED <<src, rep, logfile, pending, cd>>

NextStop ==
    \/ Next
    \/ terminate
    \/ restart

SpecStop == Init /\ [][NextStop]_vars

----------------------------------------------------------------------------
(* Another process changes the source tree while a pass is running. *)

\* One change of the source: a file created or rewritten, a directory
\* created, or an entry deleted with all it holds.
SrcChanges(tree) ==
    {write(tree, p, c) : p \in {q \in InitPaths : isdir(tree, Parent(q)) /\ ~isdir(tree, q)},
                         c \in FileContents}
    \cup {makedirs(tree, p) : p \in {q \in InitPaths : isdir(tree, Parent(q)) /\ ~exists(tree, q)}}
    \cup {rmtree(tree, p) : p \in {q \in InitPaths : exists(tree, q)}}

mutate_source ==
    /\ pc \in {"pass1", "pass1_create", "pass2"}
    /\ env.changes < MaxChanges
    /\ \E t \in SrcChanges(src) \ {src} : src' = t
    /\ env' = [env EXCEPT !.changes = @ + 1, !.dirty = TRUE]
    /\ UNCHANGED <<rep, logfile, pc, stack, todo2, pending, runs, rep0, logStart, cd>>

\* An item of src_lst that is no longer a file nor a directory when its turn
\* comes: neither branch of the loop of src_to_rep is taken.
src_to_rep_skip(item) ==
    /\ pc = "pass1"
    /\ item \in Top.todo
    /\ ~isfile(src, join(Top.dir, item))
    /\ ~isdir(src, join(Top.dir, item))
    /\ Continue(Without(item), rep)
    /\ UNCHANGED <<src, rep, logfile, pending, runs, rep0, logStart, cd, env>>

\* The replica starts as a mirror of the source.
InitMut ==
    /\ src \in InitTrees
    /\ rep = src
    /\ logfile = << >>
    /\ pc = "idle"
    /\ stack = << >>
    /\ todo2 = {}
    /\ pending = << >>
    /\ runs = 0
    /\ rep0 = rep
    /\ logStart = 0
    /\ cd = NoCall
    /\ env = NoEnv

NextMut ==
    \/ Next
    \/ mutate_source
    \/ \E item \in Names : src_to_rep_skip(item)

SpecMut == InitMut /\ [][NextMut]_vars

----------------------------------------------------------------------------
(* The change detector on its own: two existing regular files. *)

CDPath == <<"a">>

CallSameFiles ==
    /\ pc = "cd_call"
    /\ \E ds \in DirSizes :
        LET r == same_files(CDPath, CDPath, ds)
        IN  cd' = [called |-> TRUE, result |-> r.result, err |-> r.err, opened |-> r.opened]
    /\ pc' = "cd_done"
    /\ UNCHANGED <<src, rep, logfile, stack, todo2, pending, runs, rep0, logStart, env>>

InitCD ==
    /\ \E x \in CDContents : src = write(EmptyTree, CDPath, x)
    /\ \E y \in CDContents : rep = write(EmptyTree, CDPath, y)
    /\ logfile = << >>
    /\ pc = "cd_call"
    /\ stack = << >>
    /\ todo2 = {}
    /\ pending = << >>
    /\ runs = 0
    /\ rep0 = rep
    /\ logStart = 0
    /\ cd = NoCall
    /\ env = NoEnv

NextCD == CallSameFiles

SpecCD == InitCD /\ [][NextCD]_vars

----------------------------------------------------------------------------
(* Vocabulary of the properties *)

\* The last synchronize call has returned to the loop without an error.
Returned == pc = "idle" /\ runs >= 1

\* The positions of the log lines appended by the current call.
CallRange == (logStart + 1) .. Len(logfile)

Logged(action, p) ==
    Cardinality({i \in CallRange : logfile[i] = [action |-> action, path |-> p]})

LoggedAt(p) == Cardinality({i \in CallRange : logfile[i].path = p})

Pass1Actions == {"Created", "Created empty file", "Updated", "Created directory"}

SameEntry(p) ==
    /\ Kind(rep, p) = Kind(src, p)
    /\ isfile(src, p) => rep[p].data = src[p].data

----------------------------------------------------------------------------
\* C1: after a synchronize call that returns without error, every path of
\* the source tree has an entry of the same type in the replica, and a file
\* has the source file's content, whatever the initial replica held there.
C1_Convergence ==
    Returned => \A p \in Universe : exists(src, p) => SameEntry(p)

\* C2: after a synchronize call that returns without error, no path at any
\* depth exists in the replica that is absent from the source.
C2_NoStalePath ==
    Returned => \A p \in Universe : exists(rep, p) => exists(src, p)

\* C3: a second synchronize call in succession, the source unchanged, leaves
\* the replica as it was and appends no log event.
C3_Idempotent ==
    (Returned /\ runs >= 2) => (rep = rep0 /\ CallRange = {})

\* C4: within one call no pass 1 step runs once pass 2 has begun, every
\* pass 1 event precedes every deletion, and for a file renamed in the source
\* (old name only in the replica, new name only in the source) the replica
\* holds the old or the new name in every state of the call.
C4_Pass1BeforePass2 ==
    /\ pc \in {"pass1", "pass1_create"} =>
            /\ todo2 = {}
            /\ \A i \in CallRange : logfile[i].action \in Pass1Actions
    /\ pc = "pass2" => stack = << >>
    /\ \A i, j \in CallRange :
            (i < j /\ logfile[i].action = "Deleted") => logfile[j].action = "Deleted"
    /\ runs >= 1 =>
        \A old, new \in Universe :
            (/\ Parent(old) = Parent(new)
             /\ isfile(rep0, old) /\ ~exists(src, old)
             /\ isfile(src, new) /\ ~exists(rep0, new))
            => (exists(rep, old) \/ exists(rep, new))

\* C4 witness: a call that created the new name and then deleted the old one.
C4_Witness ==
    /\ Returned
    /\ isfile(rep0, <<"b">>) /\ ~exists(src, <<"b">>)
    /\ isfile(src, <<"a">>) /\ ~exists(rep0, <<"a">>)
    /\ src[<<"a">>].data = rep0[<<"b">>].data
    /\ SubSeq(logfile, logStart + 1, Len(logfile))
            = log("Created", <<"a">>) \o log("Deleted", <<"b">>)

\* C5: a zero-length source file whose path held a replica file when the call
\* started: once the call has returned the replica file exists with zero
\* length and exactly one 'Created empty file' event was logged for it.
C5_EmptyFile ==
    Returned =>
        \A p \in Universe :
            (isfile(src, p) /\ Len(src[p].data) = 0 /\ isfile(rep0, p))
            => /\ isfile(rep, p)
               /\ Len(rep[p].data) = 0
               /\ Logged("Created empty file", p) = 1
               /\ LoggedAt(p) = 1

\* C5 witness: a non-empty replica file replaced by an empty one, below the root.
C5_Witness ==
    /\ Returned
    /\ isfile(src, <<"a", "a">>) /\ Len(src[<<"a", "a">>].data) = 0
    /\ isfile(rep0, <<"a", "a">>) /\ Len(rep0[<<"a", "a">>].data) > 0
    /\ isfile(rep, <<"a", "a">>) /\ Len(rep[<<"a", "a">>].data) = 0

\* C6: a non-empty source file and a replica file of the same size and
\* different content: once the call has returned the replica file has the
\* source's content, exactly one 'Updated' event was logged for the path and
\* no 'Created' event.
C6_UpdateDetected ==
    Returned =>
        \A p \in Universe :
            (/\ isfile(src, p) /\ isfile(rep0, p)
             /\ Len(src[p].data) > 0
             /\ Len(src[p].data) = Len(rep0[p].data)
             /\ src[p].data # rep0[p].data)
            => /\ isfile(rep, p)
               /\ rep[p].data = src[p].data
               /\ Logged("Updated", p) = 1
               /\ Logged("Created", p) = 0
               /\ LoggedAt(p) = 1

\* C6 witness: a same-size replica file overwritten with the source's content.
C6_Witness ==
    /\ Returned
    /\ \E p \in Universe :
        /\ isfile(src, p) /\ isfile(rep0, p)
        /\ src[p].data = <<1>> /\ rep0[p].data = <<2>>
        /\ rep[p].data = <<1>>

\* C7: a replica directory with no entry at its path in the source (its parent
\* being a directory of the source): once the call has returned the directory
\* and its descendants are gone, one delete event was logged for it and none
\* for a descendant.
C7_SubtreeDeleted ==
    Returned =>
        \A p \in Universe :
            (isdir(rep0, p) /\ ~exists(src, p) /\ isdir(src, Parent(p)))
            => /\ \A q \in Universe : IsPrefix(p, q) => ~exists(rep, q)
               /\ Logged("Deleted", p) = 1
               /\ \A q \in Universe : (IsPrefix(p, q) /\ q # p) => LoggedAt(q) = 0

\* C8: for two existing regular files same_files returns true exactly when
\* the byte lengths and the digests agree, which is exactly when the contents
\* are equal; it raises nothing and changes neither tree nor the log.
C8_SameFiles ==
    /\ [](pc = "cd_done" =>
            LET x == src[CDPath].data
                y == rep[CDPath].data
            IN  /\ cd.called /\ ~cd.err
                /\ cd.result = (Len(x) = Len(y) /\ hexdigest(x) = hexdigest(y))
                /\ cd.result = (x = y))
    /\ [][src' = src /\ rep' = rep /\ logfile' = logfile]_vars

\* C8 witness: two different files of the same length were compared.
C8_Witness ==
    /\ pc = "cd_done"
    /\ src[CDPath].data = <<1, 2>> /\ rep[CDPath].data = <<1, 0>>
    /\ ~cd.result

\* C9: when the byte lengths differ same_files returns false and has opened
\* neither file.
C9_SizeShortCircuit ==
    (pc = "cd_done" /\ Len(src[CDPath].data) # Len(rep[CDPath].data))
    => (~cd.result /\ ~cd.err /\ cd.opened = << >>)

\* C9 witness: one file's content is a proper prefix of the other's.
C9_Witness ==
    /\ pc = "cd_done"
    /\ src[CDPath].data = <<1>> /\ rep[CDPath].data = <<1, 1>>
    /\ cd.opened = << >>

\* C10: no step changes the source tree.
C10_SourceReadOnly == [][src' = src]_vars

\* C10 witness: a returned call that changed the replica in both passes.
C10_Witness ==
    /\ Returned
    /\ rep # rep0
    /\ \E i, j \in CallRange :
        logfile[i].action \in Pass1Actions /\ logfile[j].action = "Deleted"

----------------------------------------------------------------------------
\* An entry of the source whose processing raises whatever the size of a
\* directory is: an empty file facing a replica directory, or an entry
\* whose replica parent is a file.
Raises(p) ==
    /\ exists(src, p)
    /\ \/ isfile(src, p) /\ Len(src[p].data) = 0 /\ isdir(rep0, p)
       \/ isfile(rep0, Parent(p))

\* C11: when processing an entry raises, the call never returns normally and
\* pass 2 never runs; the step that raises changes neither the replica nor the
\* log (nothing is rolled back), and nothing changes afterwards.
C11_AbortOnError ==
    /\ []((runs >= 1 /\ \E p \in Universe : Raises(p)) =>
            /\ pc \in {"pass1", "pass1_create", "crashed"}
            /\ todo2 = {}
            /\ \A i \in CallRange : logfile[i].action # "Deleted")
    /\ [][/\ pc' = "crashed" => (rep' = rep /\ logfile' = logfile)
          /\ pc = "crashed" => pc' = "crashed"]_vars

\* C11 witness: a pass aborted after it had changed the replica and logged;
\* the change is still in place.
C11_Witness ==
    /\ pc = "crashed"
    /\ \E p \in Universe : Raises(p)
    /\ \E q \in Universe : rep[q] # rep0[q] /\ LoggedAt(q) = 1

\* C12: after a call aborted by an error the loop is still running: the next
\* synchronize call can start.
C12_LoopSurvivesError ==
    (pc = "crashed" /\ runs < MaxRuns) => ENABLED synchronize

\* The replica equals the source in paths, types and file contents.
Mirrored ==
    \A p \in Universe :
        /\ Kind(rep, p) = Kind(src, p)
        /\ isfile(src, p) => rep[p].data = src[p].data

\* C13: after a pass was stopped at any point (the process terminated, or the
\* pass aborted), one complete synchronize call with the source unchanged
\* leaves the replica equal to the source in paths, types and contents.
C13_SelfHealing ==
    (Returned /\ env.stopped) => Mirrored

\* C14: once another process has changed the source during a pass, the loop
\* keeps running, and a call that started after the last change and has
\* returned has left the replica equal to the source.
C14_EventuallyConsistent ==
    (runs >= 1 /\ env.changes > 0)
    => /\ pc # "crashed"
       /\ (pc = "idle" /\ ~env.dirty) => Mirrored

\* C15: a non-empty source file whose replica file had the same size and
\* content when the call started: in every state of the call the replica file
\* is as it was and no event names it.
C15_NoOpOnIdentical ==
    runs >= 1 =>
        \A p \in Universe :
            (/\ isfile(src, p) /\ isfile(rep0, p)
             /\ Len(src[p].data) > 0
             /\ src[p].data = rep0[p].data)
            => (rep[p] = rep0[p] /\ LoggedAt(p) = 0)

\* C15 witness: a returned call that changed the replica elsewhere and left an
\* identical file alone.
C15_Witness ==
    /\ Returned
    /\ isfile(src, <<"a", "a">>) /\ src[<<"a", "a">>].data = <<1, 1>>
    /\ rep0[<<"a", "a">>] = src[<<"a", "a">>]
    /\ rep[<<"a", "a">>] = src[<<"a", "a">>]
    /\ LoggedAt(<<"b">>) = 1

\* Pass 1 of the current call is over: it completed or it was aborted.
Pass1Over == runs >= 1 /\ pc \in {"pass2", "idle", "crashed"}

\* No file entry of the source can raise: none faces a replica directory or
\* lies below a replica file.
NoFileRaises ==
    \A q \in Universe : isfile(src, q) => (~isdir(rep0, q) /\ ~Raises(q))

\* C16: once pass 1 is over (no file entry having raised), every source
\* directory that had no entry at its path in the replica when the call
\* started is a directory of the replica with exactly one 'Created directory'
\* event, the event of a parent precedes those of its descendants, and every
\* entry of a source directory has an entry in the replica.
C16_DirectoryCreated ==
    (Pass1Over /\ NoFileRaises) =>
        /\ \A p \in Universe :
                (isdir(src, p) /\ ~exists(rep0, p))
                => (isdir(rep, p) /\ Logged("Created directory", p) = 1)
        /\ \A i, j \in CallRange :
                (/\ logfile[i].action = "Created directory"
                 /\ logfile[j].action = "Created directory"
                 /\ IsPrefix(logfile[i].path, logfile[j].path)
                 /\ i # j)
                => i < j
        /\ \A p \in Universe : exists(src, p) => exists(rep, p)

----------------------------------------------------------------------------
(* The outcome of a call stated path by path, with no order in it. *)

\* The path is where copy2 puts a file whose replica path held a directory.
CopiedInto(p) ==
    /\ Len(p) >= 2
    /\ basename(p) = basename(Parent(p))
    /\ isfile(src, Parent(p))
    /\ Len(src[Parent(p)].data) > 0
    /\ isdir(rep0, Parent(p))

\* The replica entry at p once pass 1 has processed every entry.
Pass1Node(p) ==
    IF isfile(src, p)
    THEN IF isdir(rep0, p) THEN rep0[p] ELSE FileNode(src[p].data)
    ELSE IF isdir(src, p)
    THEN IF exists(rep0, p) THEN rep0[p] ELSE DirNode
    ELSE IF CopiedInto(p) THEN FileNode(src[Parent(p)].data)
    ELSE rep0[p]

\* The replica entry at p once pass 2 has processed every entry as well.
ExpectedNode(p) ==
    IF ~exists(src, <<p[1]>>) THEN NoEntry ELSE Pass1Node(p)

ExpectedEvents ==
    {[action |-> "Created empty file", path |-> p] :
        p \in {q \in Universe : isfile(src, q) /\ Len(src[q].data) = 0}}
    \cup {[action |-> "Created", path |-> p] :
        p \in {q \in Universe : isfile(src, q) /\ Len(src[q].data) > 0 /\ ~exists(rep0, q)}}
    \cup {[action |-> "Updated", path |-> p] :
        p \in {q \in Universe : /\ isfile(src, q) /\ Len(src[q].data) > 0
                                /\ exists(rep0, q)
                                /\ rep0[q] # FileNode(src[q].data)}}
    \cup {[action |-> "Created directory", path |-> p] :
        p \in {q \in Universe : isdir(src, q) /\ ~exists(rep0, q)}}
    \cup {[action |-> "Deleted", path |-> p] :
        p \in {q \in Universe : Len(q) = 1 /\ exists(rep0, q) /\ ~exists(src, q)}}

EventSet == {logfile[i] : i \in CallRange}

\* The final replica and the log events of a call that has returned are
\* given by the source and the initial replica alone, each event once,
\* whatever the order in which the listings were walked.
ReturnedCallOutcome ==
    Returned =>
        /\ \A p \in Universe : rep[p] = ExpectedNode(p)
        /\ EventSet = ExpectedEvents
        /\ Cardinality(CallRange) = Cardinality(ExpectedEvents)

\* C17: the final replica and the set of log events of one synchronize call
\* are the same for every order of the directory listings.  A call that
\* returns has the outcome given by the source and the initial replica; for
\* a call that ends in an error, some order takes the entries that cannot
\* raise before the one that does, so the final replica must hold the pass 1
\* outcome of every source entry that cannot raise.
C17_OrderIndependent ==
    /\ ReturnedCallOutcome
    /\ (pc = "crashed" /\ runs >= 1) =>
        \A p \in Universe :
            (exists(src, p) /\ ~Raises(p) /\ ~(isfile(src, p) /\ isdir(rep0, p)))
            => rep[p] = Pass1Node(p)

\* C18: every step that changes the replica appends exactly one log line
\* whose path is the entry the step changed (the removal that precedes the
\* creation of an empty file shares the line of that creation), and a step
\* that appends a line has changed the entry the line names.
C18_OneEventPerAction ==
    [][LET n == Len(logfile') - Len(logfile)
           changed == {q \in Universe : rep'[q] # rep[q]}
       IN  /\ n \in {0, 1}
           /\ n = 1 =>
                /\ logfile'[Len(logfile')].path \in changed
                /\ \A q \in changed : IsPrefix(logfile'[Len(logfile')].path, q)
           /\ (n = 0 /\ changed # {}) => pc' = "pass1_create"]_vars

\* C19: every replica entry that the current call has created or overwritten
\* (it exists and differs from the entry the call started with) is at a path
\* that exists in the source; pass 2 only removes entries, so such an entry
\* was written by pass 1.
C19_WritesOnlyMirroredPaths ==
    runs >= 1 =>
        \A p \in Universe :
            (exists(rep, p) /\ rep[p] # rep0[p]) => exists(src, p)

\* C20: a step of pass 2 changes the replica only by removing entries, and
\* an entry it removes has no entry at its path in the source, is no
\* descendant of an entry of the source, and was not created or updated by
\* pass 1 of the same call.
C20_Pass2KeepsMirrored ==
    [][pc = "pass2" =>
        \A p \in Universe :
            rep'[p] # rep[p] =>
                /\ rep'[p] = NoEntry
                /\ ~exists(src, p)
                /\ \A q \in Universe : (IsPrefix(q, p) /\ q # Root) => ~exists(src, q)
                /\ rep[p] = rep0[p]
                /\ \A i \in CallRange :
                       logfile[i].action \in Pass1Actions => logfile[i].path # p]_vars

\* C20 witness: a returned call whose pass 1 wrote a/a under the source
\* directory a and whose pass 2 deleted b; a/a is still in the replica.
C20_Witness ==
    /\ Returned
    /\ isdir(src, <<"a">>)
    /\ isfile(src, <<"a", "a">>)
    /\ rep[<<"a", "a">>] = src[<<"a", "a">>]
    /\ rep0[<<"a", "a">>] # rep[<<"a", "a">>]
    /\ exists(rep0, <<"b">>)
    /\ ~exists(rep, <<"b">>)
    /\ Logged("Deleted", <<"b">>) = 1

----------------------------------------------------------------------------
TypeOK ==
    /\ WellFormed(src)
    /\ WellFormed(rep)
    /\ pc \in {"idle", "pass1", "pass1_create", "pass2", "crashed", "stopped"}
    /\ runs \in 0 .. MaxRuns
====
